---- MODULE Spec2Model ----
(***************************************************************************)
(* Model of the Triangle class of src/triangle.js (declared in             *)
(* src/unnamed/part_000): the three named vertices, the edge-length        *)
(* resolver setSideLength, the transforms and the congruence constructors. *)
(*                                                                         *)
(* JavaScript numbers are modelled as decimal fixed-point values with      *)
(* Scale units per 1.0, extended with NaN and the two infinities.  Strings *)
(* are sequences of one-character strings.                                 *)
(*                                                                         *)
(* #draw and #createText read the points and the style and write only      *)
(* attributes of the svg elements; they assign no field of the triangle    *)
(* and do not throw, so a call of them leaves the state below as it is.    *)
(* Of the document the model keeps the number of svg elements made and     *)
(* the number attached to a canvas.                                        *)
(***************************************************************************)
EXTENDS Integers, Sequences, FiniteSets, TLC

----------------------------------------------------------------------------
(* Numbers *)
(* A number is a record [k, v].  k = "fin": the value v / Scale, with       *)
(* |v| <= Limit.  k = "nan": NaN.  k = "inf": the infinity of sign v.       *)
(* k = "huge": a finite number beyond Limit, of sign v.  k = "some": a      *)
(* finite number other than zero of sign v whose size is not known.  An    *)
(* operation whose result these kinds do not determine is Undetermined,    *)
(* which stops the evaluation.                                             *)

\* const x = e; ...: the value of e, computed once, named x in F
Bind(e, F(_)) == F(e)

Scale == 1000
Limit == 500000 * Scale

Fin(v) == [k |-> "fin", v |-> v]
NaN == [k |-> "nan", v |-> 0]
Inf(s) == [k |-> "inf", v |-> s]
Huge(s) == [k |-> "huge", v |-> s]
Some(s) == [k |-> "some", v |-> s]
Num(n) == Fin(n * Scale)
Undetermined == CHOOSE n \in {} : TRUE

IsFin(a) == a.k = "fin"
IsNaN(a) == a.k = "nan"
IsInf(a) == a.k = "inf"
IsHuge(a) == a.k = "huge"

AbsI(n) == IF n < 0 THEN 0 - n ELSE n
SgnI(n) == IF n < 0 THEN 0 - 1 ELSE IF n > 0 THEN 1 ELSE 0
MinI(a, b) == IF a < b THEN a ELSE b
MaxI(a, b) == IF a < b THEN b ELSE a

\* the sign of a number that is not NaN
Sgn(a) == IF IsFin(a) THEN SgnI(a.v) ELSE a.v
\* the sign a divisor gives a quotient; the zero of the program is +0
SgnZ(a) == IF Sgn(a) < 0 THEN 0 - 1 ELSE 1

\* the number v / Scale
MkFin(v) == IF AbsI(v) > Limit THEN Huge(SgnI(v)) ELSE Fin(v)

\* n / d rounded to nearest, n >= 0, d > 0
RoundDiv(n, d) == (2 * n + d) \div (2 * d)

\* x * y for x / Scale and y / Scale, rounded to 1 / Scale
MulF(x, y) ==
  LET ax == AbsI(x)
      ay == AbsI(y)
      q == ax \div Scale
      r == ax % Scale
      p == ay \div Scale
      t == ay % Scale
      s == SgnI(x) * SgnI(y)
  IN  IF p > 0 /\ q > (Limit \div Scale) \div p THEN Huge(s)
      ELSE MkFin(s * (q * p * Scale + q * t + r * p + RoundDiv(r * t, Scale)))

\* x / y for x / Scale and y / Scale, y # 0, rounded to 1 / Scale
DivF(x, y) ==
  LET ax == AbsI(x)
      ay == AbsI(y)
      q == ax \div ay
      r == ax % ay
      s == SgnI(x) * SgnI(y)
      frac == IF ay <= 1000 * Scale THEN RoundDiv(r * Scale, ay)
              ELSE r \div (ay \div Scale)
  IN  IF q > Limit \div Scale THEN Huge(s) ELSE MkFin(s * (q * Scale + frac))

\* r * r <= v * Scale
SqLeq(r, v) ==
  LET rq == r \div Scale
      rr == r % Scale
      hi == rq * rq * Scale + 2 * rq * rr + ((rr * rr) \div Scale)
      lo == (rr * rr) % Scale
  IN  hi < v \/ (hi = v /\ lo = 0)

RECURSIVE SqrtSearch(_, _, _)
SqrtSearch(lo, hi, v) ==
  IF hi - lo <= 1 THEN lo
  ELSE LET mid == (lo + hi) \div 2
       IN  IF SqLeq(mid, v) THEN SqrtSearch(mid, hi, v)
           ELSE SqrtSearch(lo, mid, v)

\* floor(sqrt(v * Scale)), 0 <= v <= Limit
SqrtI(v) == SqrtSearch(0, MinI(MaxI(v, Scale) + 1, 707108), v)

Add(a, b) ==
  IF IsNaN(a) \/ IsNaN(b) THEN NaN
  ELSE IF IsInf(a) /\ IsInf(b) THEN (IF a.v = b.v THEN a ELSE NaN)
  ELSE IF IsInf(a) THEN a
  ELSE IF IsInf(b) THEN b
  ELSE IF IsFin(a) /\ IsFin(b) THEN MkFin(a.v + b.v)
  ELSE IF Sgn(a) * Sgn(b) >= 0
       THEN (IF IsHuge(a) \/ IsHuge(b) THEN Huge(IF Sgn(a) # 0 THEN Sgn(a) ELSE Sgn(b))
             ELSE Some(IF Sgn(a) # 0 THEN Sgn(a) ELSE Sgn(b)))
  ELSE IF IsHuge(a) /\ IsFin(b) THEN Some(Sgn(a))
  ELSE IF IsFin(a) /\ IsHuge(b) THEN Some(Sgn(b))
  ELSE Undetermined

Neg(a) == IF IsNaN(a) THEN NaN ELSE [a EXCEPT !.v = 0 - a.v]

Sub(a, b) == Add(a, Neg(b))

Mul(a, b) ==
  IF IsNaN(a) \/ IsNaN(b) THEN NaN
  ELSE IF IsInf(a) \/ IsInf(b)
       THEN (IF Sgn(a) = 0 \/ Sgn(b) = 0 THEN NaN ELSE Inf(Sgn(a) * Sgn(b)))
  ELSE IF IsFin(a) /\ IsFin(b) THEN MulF(a.v, b.v)
  ELSE IF Sgn(a) = 0 \/ Sgn(b) = 0 THEN Fin(0)
  ELSE IF IsHuge(a) /\ IsHuge(b) THEN Huge(Sgn(a) * Sgn(b))
  ELSE IF IsHuge(a) /\ IsFin(b) /\ AbsI(b.v) >= Scale THEN Huge(Sgn(a) * Sgn(b))
  ELSE IF IsFin(a) /\ IsHuge(b) /\ AbsI(a.v) >= Scale THEN Huge(Sgn(a) * Sgn(b))
  ELSE Some(Sgn(a) * Sgn(b))

Div(a, b) ==
  IF IsNaN(a) \/ IsNaN(b) THEN NaN
  ELSE IF IsInf(a) THEN (IF IsInf(b) THEN NaN ELSE Inf(Sgn(a) * SgnZ(b)))
  ELSE IF IsInf(b) THEN Fin(0)
  ELSE IF Sgn(b) = 0 THEN (IF Sgn(a) = 0 THEN NaN ELSE Inf(Sgn(a)))
  ELSE IF IsFin(a) /\ IsFin(b) THEN DivF(a.v, b.v)
  ELSE IF Sgn(a) = 0 THEN Fin(0)
  ELSE IF IsHuge(a) /\ IsFin(b) /\ AbsI(b.v) <= Scale THEN Huge(Sgn(a) * Sgn(b))
  ELSE Some(Sgn(a) * Sgn(b))

Sqrt(a) ==
  IF IsNaN(a) THEN NaN
  ELSE IF Sgn(a) < 0 THEN NaN
  ELSE IF IsFin(a) THEN Fin(SqrtI(a.v))
  ELSE IF IsInf(a) THEN a
  ELSE Some(1)

Sq(a) == Mul(a, a)

\* a <= b; every comparison with NaN is false
Leq(a, b) ==
  IF IsNaN(a) \/ IsNaN(b) THEN FALSE
  ELSE IF IsFin(a) /\ IsFin(b) THEN a.v <= b.v
  ELSE IF IsInf(a) THEN a.v < 0 \/ (IsInf(b) /\ b.v > 0)
  ELSE IF IsInf(b) THEN b.v > 0
  ELSE IF Sgn(a) # Sgn(b) THEN Sgn(a) < Sgn(b)
  ELSE IF IsHuge(a) /\ IsFin(b) THEN Sgn(a) < 0
  ELSE IF IsFin(a) /\ IsHuge(b) THEN Sgn(b) > 0
  ELSE Undetermined

\* a > b
Gt(a, b) == ~IsNaN(a) /\ ~IsNaN(b) /\ ~Leq(a, b)

\* a * b > 0: the product of two numbers has the sign of its factors
ProductPositive(a, b) == ~IsNaN(a) /\ ~IsNaN(b) /\ Sgn(a) * Sgn(b) > 0

\* a is truthy: neither NaN nor zero
Truthy(a) == ~IsNaN(a) /\ Sgn(a) # 0

----------------------------------------------------------------------------
(* Number to string, string comparison, Array.prototype.sort *)

RECURSIVE Digits(_)
Digits(n) == IF n < 10 THEN <<48 + n>> ELSE Digits(n \div 10) \o <<48 + (n % 10)>>

\* the fraction digits of f thousandths, trailing zeros dropped
Fraction(f) ==
  IF f = 0 THEN <<>>
  ELSE LET d1 == f \div 100
           d2 == (f \div 10) % 10
           d3 == f % 10
       IN  <<46, 48 + d1>> \o
           (IF d2 = 0 /\ d3 = 0 THEN <<>>
            ELSE <<48 + d2>> \o (IF d3 = 0 THEN <<>> ELSE <<48 + d3>>))

\* Number.prototype.toString, as UTF-16 code units
NumberToString(a) ==
  IF IsNaN(a) THEN <<78, 97, 78>>
  ELSE IF ~IsFin(a) /\ ~IsInf(a) THEN Undetermined
  ELSE IF IsInf(a)
       THEN (IF a.v < 0 THEN <<45>> ELSE <<>>) \o <<73, 110, 102, 105, 110, 105, 116, 121>>
  ELSE (IF a.v < 0 THEN <<45>> ELSE <<>>)
         \o Digits(AbsI(a.v) \div Scale) \o Fraction(AbsI(a.v) % Scale)

RECURSIVE StrLess(_, _)
StrLess(s, t) ==
  IF t = <<>> THEN FALSE
  ELSE IF s = <<>> THEN TRUE
  ELSE IF Head(s) # Head(t) THEN Head(s) < Head(t)
  ELSE StrLess(Tail(s), Tail(t))

\* the comparison sort() uses when it is given no comparator
DefaultCompare(a, b) ==
  IF StrLess(NumberToString(a), NumberToString(b)) THEN 0 - 1
  ELSE IF StrLess(NumberToString(b), NumberToString(a)) THEN 1 ELSE 0

Perms(n) == {p \in [1..n -> 1..n] : \A i, j \in 1..n : i # j => p[i] # p[j]}

\* the comparator whose results are the table c is a consistent comparator
Consistent(c) ==
  LET I == DOMAIN c
  IN  /\ \A i \in I : c[i][i] = 0
      /\ \A i, j \in I : c[i][j] = 0 - c[j][i]
      /\ \A i, j, m \in I :
           /\ (c[i][j] = 0 /\ c[j][m] = 0) => c[i][m] = 0
           /\ (c[i][j] < 0 /\ c[j][m] < 0) => c[i][m] < 0
           /\ (c[i][j] = 0 /\ c[j][m] < 0) => c[i][m] < 0
           /\ (c[i][j] < 0 /\ c[j][m] = 0) => c[i][m] < 0

\* The results sort(Cmp) can give: the stable order for a consistent
\* comparator, an implementation-defined order otherwise.
Stable(c, p) ==
  \A i, j \in DOMAIN p : i < j =>
    \/ c[p[i]][p[j]] < 0
    \/ (c[p[i]][p[j]] = 0 /\ p[i] < p[j])

SortResults(s, Cmp(_, _)) ==
  Bind([i \in 1..Len(s) |-> [j \in 1..Len(s) |-> Cmp(s[i], s[j])]], LAMBDA c :
    {[i \in 1..Len(s) |-> s[p[i]]] :
       p \in IF Consistent(c) THEN {q \in Perms(Len(s)) : Stable(c, q)}
             ELSE Perms(Len(s))})

\* sort() of numbers: ordered by their strings, which is a total order
DefaultSort(s) == CHOOSE r \in SortResults(s, DefaultCompare) : TRUE

----------------------------------------------------------------------------
(* Strings and names *)

Alphabet == <<"A", "B", "C", "D", "E", "F", "G", "H", "I", "J", "K", "L", "M",
              "N", "O", "P", "Q", "R", "S", "T", "U", "V", "W", "X", "Y", "Z">>
LowerAlphabet == <<"a", "b", "c", "d", "e", "f", "g", "h", "i", "j", "k", "l", "m",
                   "n", "o", "p", "q", "r", "s", "t", "u", "v", "w", "x", "y", "z">>

IsUpper(ch) == \E i \in 1..26 : Alphabet[i] = ch
IsLower(ch) == \E i \in 1..26 : LowerAlphabet[i] = ch

ToUpperCase(s) ==
  [i \in 1..Len(s) |->
     IF IsLower(s[i]) THEN Alphabet[CHOOSE j \in 1..26 : LowerAlphabet[j] = s[i]]
     ELSE s[i]]

ToLowerCase(s) ==
  [i \in 1..Len(s) |->
     IF IsUpper(s[i]) THEN LowerAlphabet[CHOOSE j \in 1..26 : Alphabet[j] = s[i]]
     ELSE s[i]]

\* the length of the longest prefix of s without an upper-case letter
RECURSIVE RunLength(_)
RunLength(s) ==
  IF s = <<>> \/ IsUpper(Head(s)) THEN 0 ELSE 1 + RunLength(Tail(s))

\* [...s.matchAll(/[A-Z][^A-Z]*/g)].map(([match]) => match)
RECURSIVE MatchVertexNames(_)
MatchVertexNames(s) ==
  IF s = <<>> THEN <<>>
  ELSE IF ~IsUpper(Head(s)) THEN MatchVertexNames(Tail(s))
  ELSE LET n == RunLength(Tail(s))
       IN  <<SubSeq(s, 1, n + 1)>> \o MatchVertexNames(SubSeq(s, n + 2, Len(s)))

RECURSIVE Join(_)
Join(ss) == IF ss = <<>> THEN <<>> ELSE Head(ss) \o Join(Tail(ss))

\* the indices of s, in order, whose element satisfies P
FilterIdx(s, P(_)) == SelectSeq([i \in 1..Len(s) |-> i], LAMBDA i : P(s[i]))

----------------------------------------------------------------------------
(* The triangle: its three points *)

Point(x, y, name) == [x |-> x, y |-> y, name |-> name]

\* Triangle.#createDefaultTrianglePoints
CreateDefaultTrianglePoints(name) ==
  LET points == MatchVertexNames(name)
  IN  IF Len(points) # 3 THEN [threw |-> TRUE, pts |-> <<>>]
      ELSE [threw |-> FALSE,
            pts |-> <<Point(Num(70), Num(20), points[1]),
                      Point(Num(20), Num(120), points[2]),
                      Point(Num(120), Num(120), points[3])>>]

Distance(p, q) == Sqrt(Add(Sq(Sub(q.x, p.x)), Sq(Sub(q.y, p.y))))

\* #getPointsByOppositeVertex: the points (as indices) or a throw
GetPointsByOppositeVertex(pts, side) ==
  LET vertex == ToUpperCase(side)
      Other(p) == p.name # vertex
  IN  IF ~\E i \in 1..3 : pts[i].name = vertex
      THEN [threw |-> TRUE, ps |-> <<>>]
      ELSE [threw |-> FALSE, ps |-> FilterIdx(pts, Other)]

\* #getPointsByAdjacentVertex
GetPointsByAdjacentVertex(pts, side) ==
  Bind(MatchVertexNames(side), LAMBDA vertexes :
    IF Len(vertexes) # 2 THEN [threw |-> TRUE, ps |-> <<>>]
    ELSE Bind(FilterIdx(pts, LAMBDA p : \E i \in 1..Len(vertexes) : vertexes[i] = p.name),
              LAMBDA points :
                IF Len(points) # 2 THEN [threw |-> TRUE, ps |-> <<>>]
                ELSE [threw |-> FALSE, ps |-> points]))

\* #getPointsByName
GetPointsByName(pts, side) ==
  IF \E i \in 1..Len(side) : IsLower(side[i])
  THEN GetPointsByOppositeVertex(pts, side)
  ELSE GetPointsByAdjacentVertex(pts, side)

\* getSideLength
GetSideLength(pts, name) ==
  Bind(GetPointsByName(pts, name), LAMBDA r :
    IF r.threw THEN [threw |-> TRUE, val |-> NaN]
    ELSE [threw |-> FALSE, val |-> Distance(pts[r.ps[1]], pts[r.ps[2]])])

\* a variant of !== that finds no two lengths different
NeverDiffers(a, b) == FALSE

\* a !== b on numbers
StrictNotEqual(a, b) == IsNaN(a) \/ IsNaN(b) \/ a # b

\* #checkAndMergeSides: sides is the mapping as its keys in order, each a
\* record [name, length]; options accumulates records [name, length, p1, p2]
RECURSIVE CheckAndMergeSides(_, _, _)
CheckAndMergeSides(pts, sides, options) ==
  IF sides = <<>> THEN [threw |-> FALSE, options |-> options]
  ELSE
    Bind(Head(sides), LAMBDA key :
    Bind(GetPointsByName(pts, key.name), LAMBDA r :
      IF r.threw THEN [threw |-> TRUE, options |-> <<>>]
      ELSE
        Bind(FilterIdx(options, LAMBDA o : \/ (o.p1 = r.ps[1] /\ o.p2 = r.ps[2])
                                          \/ (o.p2 = r.ps[1] /\ o.p1 = r.ps[2])),
             LAMBDA found :
               IF found # <<>>
               THEN IF StrictNotEqual(options[found[1]].length, key.length)
                    THEN [threw |-> TRUE, options |-> <<>>]
                    ELSE CheckAndMergeSides(pts, Tail(sides), options)
               ELSE CheckAndMergeSides(pts, Tail(sides),
                      Append(options, [name |-> key.name, length |-> key.length,
                                       p1 |-> r.ps[1], p2 |-> r.ps[2]])))))

\* a variant of #alcutePoint that leaves the vertex where it is
KeepVertex(vertex, side1, side2) == [x |-> vertex.x, y |-> vertex.y]

\* #alcutePoint: the point at distance side1.length from side1.point and
\* side2.length from side2.point, on the side of the line where vertex is
AlcutePoint(vertex, side1, side2) ==
  Bind(side1.point.x, LAMBDA x1 :
  Bind(side1.point.y, LAMBDA y1 :
  Bind(side2.point.x, LAMBDA x2 :
  Bind(side2.point.y, LAMBDA y2 :
  Bind(Sqrt(Add(Sq(Sub(x2, x1)), Sq(Sub(y2, y1)))), LAMBDA distance :
  Bind(Div(Add(Sub(Sq(side1.length), Sq(side2.length)), Sq(distance)),
           Mul(Num(2), distance)), LAMBDA a :
  Bind(Sqrt(Sub(Sq(side1.length), Sq(a))), LAMBDA h :
  Bind(Div(Sub(x2, x1), distance), LAMBDA dx :
  Bind(Div(Sub(y2, y1), distance), LAMBDA dy :
  Bind(Add(x1, Mul(a, dx)), LAMBDA ix :
  Bind(Add(y1, Mul(a, dy)), LAMBDA iy :
  Bind(Add(ix, Mul(h, dy)), LAMBDA px1 :
  Bind(Sub(iy, Mul(h, dx)), LAMBDA py1 :
  Bind(Sub(Mul(Sub(x2, x1), Sub(py1, y1)), Mul(Sub(y2, y1), Sub(px1, x1))),
       LAMBDA crossProduct :
  Bind(Sub(Mul(Sub(x2, x1), Sub(vertex.y, y1)), Mul(Sub(y2, y1), Sub(vertex.x, x1))),
       LAMBDA crossProductVertex :
    IF ProductPositive(crossProduct, crossProductVertex)
    THEN [x |-> px1, y |-> py1]
    ELSE [x |-> Sub(ix, Mul(h, dy)), y |-> Add(iy, Mul(h, dx))])))))))))))))))

\* min + mid <= max on the default-sorted lengths
InvalidTriangle(lengths) ==
  \E sorted \in {DefaultSort(lengths)} : Leq(Add(sorted[1], sorted[2]), sorted[3])

SignOf(a) == IF IsNaN(a) THEN 0 ELSE Sgn(a)

\* ({x: x1, y: y1}, {x: x2, y: y2}) => x1 - x2 || y2 - y1
CompareFixed(p, q) ==
  LET v == Sub(p.x, q.x)
  IN  SignOf(IF Truthy(v) THEN v ELSE Sub(q.y, p.y))

\* a variant of the second comparator that orders as the first one does
SlidedByX(p, q) == CompareFixed(p, q)

\* (p1, p2) => p2.y - p1.y || p2.x - p1.x
CompareSlided(p, q) ==
  LET v == Sub(q.y, p.y)
  IN  SignOf(IF Truthy(v) THEN v ELSE Sub(q.x, p.x))

\* point i of pts moved to (x, y)
Place(pts, i, x, y) == [pts EXCEPT ![i].x = x, ![i].y = y]

\* a variant of the slide that does not divide the direction by d
SlideUnscaled(fixed, slided, d, length) ==
  [x |-> Add(fixed.x, Mul(Sub(slided.x, fixed.x), length)),
   y |-> Add(fixed.y, Mul(Sub(slided.y, fixed.y), length))]

\* the point reached from fixed towards slided at the given length
Slide(fixed, slided, d, length) ==
  LET dx == Div(Sub(slided.x, fixed.x), d)
      dy == Div(Sub(slided.y, fixed.y), d)
  IN  [x |-> Add(fixed.x, Mul(dx, length)), y |-> Add(fixed.y, Mul(dy, length))]

Thrown(pts) == [threw |-> TRUE, pts |-> pts]
Done(pts) == [threw |-> FALSE, pts |-> pts]

\* the positions in <<i, j>> as sort((a, b) => Cmp(a, b)) may order them
SortedIdx(pts, idx, Cmp(_, _)) ==
  LET tagged == [n \in 1..Len(idx) |-> [i |-> idx[n], p |-> pts[idx[n]]]]
      C(a, b) == Cmp(a.p, b.p)
  IN  {[n \in 1..Len(idx) |-> r[n].i] : r \in SortResults(tagged, C)}

\* a variant of #setOneSideLength that slides the point before it validates
SlideThenCheck(pts, option) ==
  UNION {
    { Bind(Slide(pts[order[1]], pts[order[2]],
                 Distance(pts[option.p2], pts[option.p1]), option.length),
           LAMBDA s :
      Bind(Place(pts, order[2], s.x, s.y), LAMBDA pts1 :
        IF InvalidTriangle(<<option.length, l1, l2>>) THEN Thrown(pts1)
        ELSE Bind(AlcutePoint(pts1[left],
                              [length |-> l1, point |-> pts1[option.p2]],
                              [length |-> l2, point |-> pts1[option.p1]]),
                  LAMBDA v : Done(Place(pts1, left, v.x, v.y)))))
      : order \in SortedIdx(pts, <<option.p1, option.p2>>, CompareFixed) }
    : l1 \in {GetSideLength(pts, ToLowerCase(pts[option.p1].name)).val},
      l2 \in {GetSideLength(pts, ToLowerCase(pts[option.p2].name)).val},
      left \in {CHOOSE i \in 1..3 : i # option.p1 /\ i # option.p2} }

\* #setOneSideLength
SetOneSideLength(pts, option) ==
  UNION {
    IF InvalidTriangle(<<option.length, l1, l2>>) THEN {Thrown(pts)}
    ELSE { Bind(Slide(pts[order[1]], pts[order[2]],
                      Distance(pts[option.p2], pts[option.p1]), option.length),
                LAMBDA s :
           Bind(Place(pts, order[2], s.x, s.y), LAMBDA pts1 :
           Bind(AlcutePoint(pts1[left],
                            [length |-> l1, point |-> pts1[option.p2]],
                            [length |-> l2, point |-> pts1[option.p1]]),
                LAMBDA v : Done(Place(pts1, left, v.x, v.y)))))
           : order \in SortedIdx(pts, <<option.p1, option.p2>>, CompareFixed) }
    : l1 \in {GetSideLength(pts, ToLowerCase(pts[option.p1].name)).val},
      l2 \in {GetSideLength(pts, ToLowerCase(pts[option.p2].name)).val},
      left \in {CHOOSE i \in 1..3 : i # option.p1 /\ i # option.p2} }

\* the end of o that is not vertex
OtherEnd(o, vertex) == IF o.p1 = vertex THEN o.p2 ELSE o.p1

\* #setTwoSidesLength
SetTwoSidesLength(pts, options) ==
  { IF InvalidTriangle(<<GetSideLength(pts, ToLowerCase(pts[publicVertex].name)).val,
                         options[1].length, options[2].length>>)
    THEN Thrown(pts)
    ELSE Bind(AlcutePoint(pts[publicVertex],
                [length |-> options[1].length,
                 point |-> pts[OtherEnd(options[1], publicVertex)]],
                [length |-> options[2].length,
                 point |-> pts[OtherEnd(options[2], publicVertex)]]),
              LAMBDA v : Done(Place(pts, publicVertex, v.x, v.y)))
    : publicVertex \in {IF \/ options[1].p1 = options[2].p1
                           \/ options[1].p1 = options[2].p2
                        THEN options[1].p1 ELSE options[1].p2} }

\* the rest of #setAllSidesLength once fixed and slided are chosen
SlideAndPlace(pts, options, fixed, slided) ==
  { IF index = <<>> THEN Thrown(pts)
    ELSE Bind(Slide(pts[fixed], pts[slided], Distance(pts[fixed], pts[slided]),
                    options[index[1]].length), LAMBDA s :
         Bind(Place(pts, slided, s.x, s.y), LAMBDA pts1 :
         Bind(SelectSeq(<<1, 2, 3>>, LAMBDA n : n # index[1]), LAMBDA rest :
         Bind(AlcutePoint(pts1[moved],
                [length |-> options[rest[1]].length,
                 point |-> pts1[OtherEnd(options[rest[1]], moved)]],
                [length |-> options[rest[2]].length,
                 point |-> pts1[OtherEnd(options[rest[2]], moved)]]),
              LAMBDA v : Done(Place(pts1, moved, v.x, v.y))))))
    : index \in {FilterIdx(options, LAMBDA o : \/ (o.p1 = fixed /\ o.p2 = slided)
                                               \/ (o.p1 = slided /\ o.p2 = fixed))},
      moved \in {CHOOSE i \in 1..3 : i # fixed /\ i # slided} }

\* #setAllSidesLength
SetAllSidesLength(pts, options) ==
  IF InvalidTriangle(<<options[1].length, options[2].length, options[3].length>>)
  THEN {Thrown(pts)}
  ELSE UNION { UNION { SlideAndPlace(pts, options, byX[1], byY[1])
                       : byY \in SortedIdx(pts, SelectSeq(<<1, 2, 3>>,
                                                 LAMBDA i : i # byX[1]),
                                           CompareSlided) }
               : byX \in SortedIdx(pts, <<1, 2, 3>>, CompareFixed) }

\* setSideLength: the outcomes of one call
SetSideLength(pts, sides) ==
  UNION { IF m.threw THEN {Thrown(pts)}
          ELSE IF Len(m.options) = 1 THEN SetOneSideLength(pts, m.options[1])
          ELSE IF Len(m.options) = 2 THEN SetTwoSidesLength(pts, m.options)
          ELSE IF Len(m.options) = 3 THEN SetAllSidesLength(pts, m.options)
          ELSE {Done(pts)}
          : m \in {CheckAndMergeSides(pts, sides, <<>>)} }

----------------------------------------------------------------------------
(* Transforms *)

\* every point of pts mapped by F
MapPoints(pts, F(_)) ==
  [i \in 1..Len(pts) |->
     Bind(F(pts[i]), LAMBDA q : [pts[i] EXCEPT !.x = q.x, !.y = q.y])]

\* move
MovePoints(pts, deltaX, deltaY) ==
  MapPoints(pts, LAMBDA p : [x |-> Add(p.x, deltaX), y |-> Add(p.y, deltaY)])

\* movePoint
MovePoint(pts, name, deltaX, deltaY) ==
  Bind(FilterIdx(pts, LAMBDA p : p.name = name), LAMBDA found :
    IF found = <<>> THEN Thrown(pts)
    ELSE Done(Place(pts, found[1], Add(pts[found[1]].x, deltaX),
                    Add(pts[found[1]].y, deltaY))))

CenterX(pts) == Div(Add(Add(pts[1].x, pts[2].x), pts[3].x), Num(3))
CenterY(pts) == Div(Add(Add(pts[1].y, pts[2].y), pts[3].y), Num(3))

\* scale
ScalePoints(pts, factor) ==
  Bind(CenterX(pts), LAMBDA centerX :
  Bind(CenterY(pts), LAMBDA centerY :
    MapPoints(pts, LAMBDA p :
      [x |-> Add(centerX, Mul(Sub(p.x, centerX), Sub(factor, Num(1)))),
       y |-> Add(centerY, Mul(Sub(p.y, centerY), Sub(factor, Num(1))))])))

\* Math.cos((angle * Math.PI) / 180) and Math.sin of the same, for the
\* angles the model uses (whole degrees)
Cos(angle) ==
  LET deg == angle.v \div Scale
  IN  Fin(CASE deg = 0 -> 1000 [] deg = 30 -> 866 [] deg = 45 -> 707
            [] deg = 60 -> 500 [] deg = 90 -> 0 [] deg = 120 -> 0 - 500
            [] deg = 135 -> 0 - 707 [] deg = 150 -> 0 - 866
            [] deg = 180 -> 0 - 1000 [] deg = 270 -> 0 [] deg = 360 -> 1000)

Sin(angle) ==
  LET deg == angle.v \div Scale
  IN  Fin(CASE deg = 0 -> 0 [] deg = 30 -> 500 [] deg = 45 -> 707
            [] deg = 60 -> 866 [] deg = 90 -> 1000 [] deg = 120 -> 866
            [] deg = 135 -> 707 [] deg = 150 -> 500
            [] deg = 180 -> 0 [] deg = 270 -> 0 - 1000 [] deg = 360 -> 0)

\* rotate
RotatePoints(pts, angle) ==
  Bind(CenterX(pts), LAMBDA centerX :
  Bind(CenterY(pts), LAMBDA centerY :
    MapPoints(pts, LAMBDA p :
      Bind(Sub(p.x, centerX), LAMBDA dx :
      Bind(Sub(p.y, centerY), LAMBDA dy :
        [x |-> Sub(Add(centerX, Mul(dx, Cos(angle))), Mul(dy, Sin(angle))),
         y |-> Add(Add(centerY, Mul(dx, Sin(angle))), Mul(dy, Cos(angle)))])))))

\* flip: line is [a, b, c]
FlipPoints(pts, line) ==
  Bind(line.a, LAMBDA a :
  Bind(line.b, LAMBDA b :
  Bind(line.c, LAMBDA c :
    MapPoints(pts, LAMBDA p :
      Bind(Add(Mul(a, a), Mul(b, b)), LAMBDA denominator :
      Bind(Div(Sub(Sub(Mul(Mul(b, b), p.x), Mul(Mul(a, b), p.y)), Mul(a, c)),
               denominator), LAMBDA x1 :
      Bind(Div(Sub(Sub(Mul(Mul(a, a), p.y), Mul(Mul(a, b), p.x)), Mul(b, c)),
               denominator), LAMBDA y1 :
        [x |-> Sub(Mul(Num(2), x1), p.x), y |-> Sub(Mul(Num(2), y1), p.y)])))))))

----------------------------------------------------------------------------
(* Construction *)

\* JavaScript values passed as name or canvas
Str(s) == [t |-> "string", s |-> s, id |-> ""]
Element(id) == [t |-> "element", s |-> <<>>, id |-> id]
Undefined == [t |-> "undefined", s |-> <<>>, id |-> ""]

Body == Element("body")
Canvases == {"body"}

\* the names String.fromCharCode(i) + suffix in the order #defaultName tries them
Candidates ==
  [n \in 1..78 |-> <<Alphabet[((n - 1) % 26) + 1]>> \o
                   (IF n <= 26 THEN <<>> ELSE IF n <= 52 THEN <<"'">> ELSE <<"'", "'">>)]

\* Triangle.#defaultName; wm is the weakMap, a canvas without an entry maps
\* to <<>>.  WeakMap.get of a key that is not an object is undefined and
\* WeakMap.set of such a key throws a TypeError.
DefaultName(canvas, wm) ==
  Bind(IF canvas.t = "element" THEN wm[canvas.id] ELSE <<>>, LAMBDA points :
    IF points = <<>>
    THEN IF canvas.t # "element" THEN [threw |-> TRUE, name |-> <<>>, wm |-> wm]
         ELSE [threw |-> FALSE, name |-> <<"A", "B", "C">>,
               wm |-> [wm EXCEPT ![canvas.id] = <<<<"A">>, <<"B">>, <<"C">>>>]]
    ELSE Bind(SubSeq(SelectSeq(Candidates,
                       LAMBDA c : ~\E i \in 1..Len(points) : points[i] = c), 1, 3),
              LAMBDA noneUsed :
                [threw |-> FALSE, name |-> Join(noneUsed),
                 wm |-> [wm EXCEPT ![canvas.id] = points \o noneUsed]]))

NoTriangle == [points |-> <<>>, canvas |-> Undefined, strokeColor |-> "",
               strokeWidth |-> 0, fillColor |-> ""]

\* svgs counts the Triangle objects constructed (made) and the svg elements
\* attached to the canvas
Appended(svgs) == [attached |-> svgs.attached + 1, made |-> svgs.made + 1]

\* new Triangle(name, canvas): the object, the weakMap and the svg counts
\* afterwards
Constructor(name, canvasArg, wm, svgs) ==
  Bind(IF canvasArg = Undefined THEN Body ELSE canvasArg, LAMBDA canvas :
  Bind(IF name.t # "string" THEN DefaultName(canvas, wm)
       ELSE [threw |-> FALSE, name |-> name.s, wm |-> wm], LAMBDA dn :
    IF dn.threw THEN [threw |-> TRUE, tri |-> NoTriangle, wm |-> wm, svgs |-> svgs]
    ELSE
      Bind(CreateDefaultTrianglePoints(dn.name), LAMBDA dp :
        IF dp.threw \/ canvas.t # "element"
        THEN [threw |-> TRUE, tri |-> NoTriangle, wm |-> dn.wm, svgs |-> svgs]
        ELSE [threw |-> FALSE,
              tri |-> [points |-> dp.pts, canvas |-> canvas, strokeColor |-> "black",
                       strokeWidth |-> 1, fillColor |-> "transparent"],
              wm |-> dn.wm, svgs |-> Appended(svgs)])))

NamesPrimed(pts) == Join([i \in 1..Len(pts) |-> pts[i].name \o <<"'">>])

\* copy
Copy(this, wm, svgs) ==
  Bind(Constructor(this.canvas, Str(NamesPrimed(this.points)), wm, svgs), LAMBDA c :
    IF c.threw THEN c
    ELSE [c EXCEPT !.tri = [c.tri EXCEPT
            !.points = MovePoints([i \in 1..3 |-> [c.tri.points[i] EXCEPT
                                    !.x = this.points[i].x, !.y = this.points[i].y]],
                                  Num(10), Num(10)),
            !.strokeColor = this.strokeColor,
            !.strokeWidth = this.strokeWidth,
            !.fillColor = this.fillColor]])

\* the loop of the constructors that finds the shift bringing every
\* coordinate to 20 or more, followed by move(deltaX, deltaY)
RECURSIVE MaxDelta(_, _)
MaxDelta(vals, delta) ==
  IF vals = <<>> THEN delta
  ELSE MaxDelta(Tail(vals),
                IF Gt(Sub(Num(20), Head(vals)), delta) THEN Sub(Num(20), Head(vals))
                ELSE delta)

MoveIntoView(pts) ==
  MovePoints(pts, MaxDelta([i \in 1..3 |-> pts[i].x], Num(0)),
             MaxDelta([i \in 1..3 |-> pts[i].y], Num(0)))

\* the constructor result c once the construction that follows new threw:
\* the svg element the constructor appended is removed
Removed(c) ==
  [c EXCEPT !.threw = TRUE, !.tri = NoTriangle, !.svgs.attached = c.svgs.attached - 1]

\* Triangle.fromSSS: the outcomes of one call
FromSSS(length1, length2, length3, name, canvas, wm, svgs) ==
  UNION {
    IF c.threw THEN {c}
    ELSE { IF o.threw THEN Removed(c)
           ELSE [c EXCEPT !.tri.points = MoveIntoView(o.pts)]
           : o \in SetSideLength(c.tri.points,
                <<[name |-> ToLowerCase(c.tri.points[1].name), length |-> length1],
                  [name |-> ToLowerCase(c.tri.points[2].name), length |-> length2],
                  [name |-> ToLowerCase(c.tri.points[3].name), length |-> length3]>>) }
    : c \in {Constructor(name, canvas, wm, svgs)} }

\* Triangle.fromASA
FromASA(angle1, length, angle2, name, canvas, wm, svgs) ==
  Bind(Constructor(name, canvas, wm, svgs), LAMBDA c :
    IF c.threw THEN c
    ELSE IF \/ Leq(angle1, Num(0)) \/ Leq(Num(180), angle1)
            \/ Leq(angle2, Num(0)) \/ Leq(Num(180), angle2)
            \/ Leq(Num(180), Add(angle1, angle2))
            \/ Leq(length, Num(0))
    THEN Removed(c)
    ELSE
      Bind(Place(c.tri.points, 3, Add(c.tri.points[2].x, length), c.tri.points[2].y),
           LAMBDA pts :
      Bind(Cos(angle1), LAMBDA rateAB :
      Bind(Cos(angle2), LAMBDA rateAC :
        [c EXCEPT !.tri.points = MoveIntoView(
           Place(pts, 1,
             Add(pts[2].x, Div(Mul(length, rateAB), Add(rateAB, rateAC))),
             Sub(pts[2].y, Div(Mul(length, Sin(angle1)), Add(rateAB, rateAC)))))]))))

\* a variant of fromHL that constructs the triangle before it validates
ConstructThenCheck(hypotenuse, leg, name, canvas, wm, svgs) ==
  Bind(Constructor(name, canvas, wm, svgs), LAMBDA c :
    IF c.threw THEN c
    ELSE IF Leq(leg, Num(0)) \/ Leq(hypotenuse, leg) THEN Removed(c)
    ELSE
      Bind(Place(c.tri.points, 3, Add(c.tri.points[2].x, leg), c.tri.points[2].y),
           LAMBDA pts :
        [c EXCEPT !.tri.points = MoveIntoView(
           Place(pts, 1, pts[2].x,
                 Sub(pts[2].y, Sqrt(Sub(Sq(hypotenuse), Sq(leg))))))]))

\* Triangle.fromHL
FromHL(hypotenuse, leg, name, canvas, wm, svgs) ==
  IF Leq(leg, Num(0)) \/ Leq(hypotenuse, leg)
  THEN [threw |-> TRUE, tri |-> NoTriangle, wm |-> wm, svgs |-> svgs]
  ELSE
    Bind(Constructor(name, canvas, wm, svgs), LAMBDA c :
      IF c.threw THEN c
      ELSE
        Bind(Place(c.tri.points, 3, Add(c.tri.points[2].x, leg), c.tri.points[2].y),
             LAMBDA pts :
          [c EXCEPT !.tri.points = MoveIntoView(
             Place(pts, 1, pts[2].x,
                   Sub(pts[2].y, Sqrt(Sub(Sq(hypotenuse), Sq(leg))))))]))

----------------------------------------------------------------------------
(* The program state *)

VARIABLES
  tri,      \* the triangle object the program holds
  ret,      \* the triangle copy() returned in the last step, or NoTriangle
  weakMap,  \* the module's weakMap: canvas -> vertex names handed out
  svgs,     \* the Triangle objects made and the svg elements attached
  pre,      \* tri before the last step
  preSvgs,  \* svgs before the last step
  last,     \* the last call: its name, arguments and whether it threw
  steps     \* the number of calls made

vars == <<tri, ret, weakMap, svgs, pre, preSvgs, last, steps>>

MaxSteps == 2
MaxBuilds == 1

ABC == <<"A", "B", "C">>

Call(op, sides, args, name, threw) ==
  [op |-> op, sides |-> sides, args |-> args, name |-> name, threw |-> threw]

\* the page after  tri = new Triangle("ABC")
Init ==
  \E c \in {Constructor(Str(ABC), Undefined, [id \in Canvases |-> <<>>],
                         [attached |-> 0, made |-> 0])} :
    /\ tri = c.tri
    /\ ret = NoTriangle
    /\ weakMap = c.wm
    /\ svgs = c.svgs
    /\ pre = c.tri
    /\ preSvgs = c.svgs
    /\ last = Call("new", <<>>, <<>>, ABC, FALSE)
    /\ steps = 0

\* a call on tri that leaves it with the points of outcome o
Mutate(o, call) ==
  /\ tri' = [tri EXCEPT !.points = o.pts]
  /\ pre' = tri
  /\ preSvgs' = svgs
  /\ ret' = NoTriangle
  /\ last' = call
  /\ steps' = steps + 1
  /\ UNCHANGED <<weakMap, svgs>>

\* a constructor call whose result c replaces tri unless it threw
Build(c, call) ==
  /\ tri' = IF c.threw THEN tri ELSE c.tri
  /\ pre' = tri
  /\ preSvgs' = svgs
  /\ ret' = NoTriangle
  /\ weakMap' = c.wm
  /\ svgs' = c.svgs
  /\ last' = call
  /\ steps' = steps + 1

\* tri = new Triangle()
New ==
  \E c \in {Constructor(Undefined, Undefined, weakMap, svgs)} :
    Build(c, Call("new", <<>>, <<>>, <<>>, c.threw))

\* tri.setSideLength(sides)
DoSetSideLength(sides) ==
  \E o \in SetSideLength(tri.points, sides) :
    Mutate(o, Call("setSideLength", sides, <<>>, <<>>, o.threw))

\* tri.move(deltaX, deltaY)
DoMove(deltaX, deltaY) ==
  Mutate(Done(MovePoints(tri.points, deltaX, deltaY)),
         Call("move", <<>>, <<deltaX, deltaY>>, <<>>, FALSE))

\* tri.movePoint(name, deltaX, deltaY)
DoMovePoint(name, deltaX, deltaY) ==
  \E o \in {MovePoint(tri.points, name, deltaX, deltaY)} :
    Mutate(o, Call("movePoint", <<>>, <<deltaX, deltaY>>, name, o.threw))

\* tri.scale(factor)
DoScale(factor) ==
  Mutate(Done(ScalePoints(tri.points, factor)),
         Call("scale", <<>>, <<factor>>, <<>>, FALSE))

\* tri.rotate(angle)
DoRotate(angle) ==
  Mutate(Done(RotatePoints(tri.points, angle)),
         Call("rotate", <<>>, <<angle>>, <<>>, FALSE))

\* tri.flip(line)
DoFlip(line) ==
  Mutate(Done(FlipPoints(tri.points, line)),
         Call("flip", <<>>, <<line.a, line.b, line.c>>, <<>>, FALSE))

\* tri.setStrokeColor(color), setStrokeWidth(width), setFillColor(color)
DoSetStyle(color, width, fill) ==
  /\ tri' = [tri EXCEPT !.strokeColor = color, !.strokeWidth = width,
                        !.fillColor = fill]
  /\ pre' = tri
  /\ preSvgs' = svgs
  /\ ret' = NoTriangle
  /\ last' = Call("setStyle", <<>>, <<>>, <<>>, FALSE)
  /\ steps' = steps + 1
  /\ UNCHANGED <<weakMap, svgs>>

\* ret = tri.copy()
DoCopy ==
  \E c \in {Copy(tri, weakMap, svgs)} :
    /\ ret' = c.tri
    /\ weakMap' = c.wm
    /\ svgs' = c.svgs
    /\ pre' = tri
    /\ preSvgs' = svgs
    /\ last' = Call("copy", <<>>, <<>>, <<>>, c.threw)
    /\ steps' = steps + 1
    /\ UNCHANGED tri

\* tri = Triangle.fromSSS(length1, length2, length3, "ABC")
DoFromSSS(length1, length2, length3) ==
  \E c \in FromSSS(length1, length2, length3, Str(ABC), Undefined, weakMap, svgs) :
    Build(c, Call("fromSSS", <<>>, <<length1, length2, length3>>, ABC, c.threw))

\* tri = Triangle.fromASA(angle1, length, angle2, "ABC")
DoFromASA(angle1, length, angle2) ==
  \E c \in {FromASA(angle1, length, angle2, Str(ABC), Undefined, weakMap, svgs)} :
    Build(c, Call("fromASA", <<>>, <<angle1, length, angle2>>, ABC, c.threw))

\* tri = Triangle.fromHL(hypotenuse, leg, "ABC")
DoFromHL(hypotenuse, leg) ==
  \E c \in {FromHL(hypotenuse, leg, Str(ABC), Undefined, weakMap, svgs)} :
    Build(c, Call("fromHL", <<>>, <<hypotenuse, leg>>, ABC, c.threw))

----------------------------------------------------------------------------
(* Inputs *)

Side(name, n) == [name |-> name, length |-> Num(n)]

AB == <<"A", "B">>
BA == <<"B", "A">>
BC == <<"B", "C">>
CA == <<"C", "A">>

\* one edge, by either form of name
OneSide ==
  {<<Side(t, n)>> : t \in {AB, BC, CA, <<"a">>, <<"b">>, <<"c">>}, n \in {5, 120, 300}}

\* two edges
TwoSides ==
  {<<Side(ts[1], n1), Side(ts[2], n2)>> :
     ts \in {<<AB, BC>>, <<<<"b">>, <<"c">>>>}, n1 \in {120, 300}, n2 \in {120, 300}}

\* three edges
ThreeSides ==
  { <<Side(AB, 5), Side(BC, 5), Side(CA, 5)>>,
    <<Side(<<"a">>, 3), Side(<<"b">>, 4), Side(<<"c">>, 5)>>,
    <<Side(<<"a">>, 10), Side(<<"b">>, 2), Side(<<"c">>, 3)>>,
    <<Side(<<"a">>, 1), Side(<<"b">>, 1), Side(<<"c">>, 3)>>,
    <<Side(AB, 2), Side(BC, 2), Side(CA, 4)>> }

\* several names for one edge, with equal and with different lengths
RepeatedSides ==
  { <<Side(AB, 120), Side(BA, 120)>>,
    <<Side(AB, 120), Side(<<"c">>, 120)>>,
    <<Side(AB, 120), Side(BA, 100)>>,
    <<Side(<<"c">>, 120), Side(AB, 100)>>,
    <<Side(<<"a">>, 120), Side(BC, 120), Side(AB, 120)>>,
    <<Side(AB, 120), Side(BC, 120), Side(BA, 100)>>,
    <<Side(AB, 5), Side(BA, 5), Side(BC, 5), Side(<<"a">>, 5), Side(CA, 5)>>,
    <<Side(AB, 5), Side(BC, 5), Side(CA, 5), Side(<<"b">>, 6)>> }

\* names that are not an edge of triangle ABC
BadSides ==
  { <<Side(<<"A", "D">>, 120)>>,
    <<Side(<<"d">>, 120)>>,
    <<Side(<<"A">>, 120)>>,
    <<Side(ABC, 120)>>,
    <<Side(AB, 120), Side(<<"A", "D">>, 120)>>,
    <<>> }

SidesInputs == OneSide \cup TwoSides \cup ThreeSides \cup RepeatedSides \cup BadSides

MoveInputs == {<<10, 10>>, <<0 - 50, 0>>}
MovePointInputs ==
  { [name |-> <<"A">>, dx |-> 0, dy |-> 100],
    [name |-> <<"A">>, dx |-> 0 - 50, dy |-> 100],
    [name |-> <<"B">>, dx |-> 10, dy |-> 0],
    [name |-> <<"D">>, dx |-> 10, dy |-> 0] }
ScaleInputs == {1, 2, 3}
RotateInputs == {90, 360}
FlipInputs == {<<0, 0, 0>>, <<0, 0, 1>>, <<1, 0, 0>>, <<0, 1, 0 - 120>>, <<1, 1, 0>>}
StyleInputs == {<<"red", 1, "transparent">>, <<"black", 2, "transparent">>,
                <<"black", 1, "blue">>}

SSSInputs == {<<3, 4, 5>>, <<10, 2, 3>>, <<2, 2, 4>>}

SSSLengths == {3, 4, 5, 10}
ASAAngles == {0, 30, 45, 60, 90, 120}
ASALengths == {0, 10}
HLLengths == {0 - 1, 0, 5, 6, 10}

----------------------------------------------------------------------------
(* Specifications *)

\* any sequence of calls on the triangle, MaxSteps calls long at most
Next ==
  \/ steps < MaxSteps /\ New
  \/ steps < MaxSteps /\ \E sides \in SidesInputs : DoSetSideLength(sides)
  \/ steps < MaxSteps /\ \E d \in MoveInputs : DoMove(Num(d[1]), Num(d[2]))
  \/ steps < MaxSteps /\ \E m \in MovePointInputs :
        DoMovePoint(m.name, Num(m.dx), Num(m.dy))
  \/ steps < MaxSteps /\ \E f \in ScaleInputs : DoScale(Num(f))
  \/ steps < MaxSteps /\ \E a \in RotateInputs : DoRotate(Num(a))
  \/ steps < MaxSteps /\ \E l \in FlipInputs :
        DoFlip([a |-> Num(l[1]), b |-> Num(l[2]), c |-> Num(l[3])])
  \/ steps < MaxSteps /\ \E st \in StyleInputs : DoSetStyle(st[1], st[2], st[3])
  \/ steps < MaxSteps /\ DoCopy
  \/ steps < MaxSteps /\ \E t \in SSSInputs : DoFromSSS(Num(t[1]), Num(t[2]), Num(t[3]))

Spec == Init /\ [][Next]_vars

\* the congruence constructors and the three-edge setSideLength over a grid
\* of lengths and angles, MaxBuilds calls long at most
NextBuild ==
  \/ steps < MaxBuilds /\ \E l1, l2, l3 \in SSSLengths :
        DoFromSSS(Num(l1), Num(l2), Num(l3))
  \/ steps < MaxBuilds /\ \E l1, l2, l3 \in SSSLengths :
        DoSetSideLength(<<Side(AB, l1), Side(BC, l2), Side(CA, l3)>>)
  \/ steps < MaxBuilds /\ \E a1, a2 \in ASAAngles : \E l \in ASALengths :
        DoFromASA(Num(a1), Num(l), Num(a2))
  \/ steps < MaxBuilds /\ \E h, l \in HLLengths : DoFromHL(Num(h), Num(l))

SpecBuild == Init /\ [][NextBuild]_vars

\* every coordinate is a number small enough for the arithmetic of the model
Representable ==
  \A i \in 1..3 : \A v \in {tri.points[i].x, tri.points[i].y} : IsFin(v) \/ IsNaN(v)

----------------------------------------------------------------------------
(* Properties.  Each is stated on the state after a call: last is the call, *)
(* pre the triangle before it and tri the triangle after it.                *)

\* the distance below which two lengths are the same length
Tolerance == Scale \div 20

Near(a, b) == IsFin(a) /\ IsFin(b) /\ AbsI(a.v - b.v) <= Tolerance

DefaultPoints == CreateDefaultTrianglePoints(ABC).pts

\* the length of the side called name in pts
SideOf(pts, name) == GetSideLength(pts, name).val

SamePoints(ps, qs) == \A i \in 1..3 : ps[i].x = qs[i].x /\ ps[i].y = qs[i].y

\* the largest of x, y, z is at least the sum of the other two
Unrealizable(x, y, z) ==
  Leq(Add(x, y), z) \/ Leq(Add(y, z), x) \/ Leq(Add(x, z), y)

\* x, y, z are positive and satisfy the strict triangle inequality
Realizable(x, y, z) ==
  /\ Gt(x, Num(0)) /\ Gt(y, Num(0)) /\ Gt(z, Num(0))
  /\ Gt(Add(x, y), z) /\ Gt(Add(y, z), x) /\ Gt(Add(x, z), y)

\* the edges the last setSideLength named, each once
Merged == CheckAndMergeSides(pre.points, last.sides, <<>>)

\* the last call was a setSideLength that named n different edges
NamedEdges(n) ==
  last.op = "setSideLength" /\ ~Merged.threw /\ Len(Merged.options) = n

\* the vertex of 1..3 that is no end of the edge o
Opposite(o) == CHOOSE i \in 1..3 : i # o.p1 /\ i # o.p2

\* C1: a fromSSS or a three-edge setSideLength whose largest length is at
\* least the sum of the other two throws, and so does a one-edge
\* setSideLength whose length is unrealizable with the current lengths of
\* the other two edges.
C1_UnrealizableRejected ==
  /\ (last.op = "fromSSS" /\ Unrealizable(last.args[1], last.args[2], last.args[3]))
       => last.threw
  /\ NamedEdges(3) =>
       \A m \in {Merged} :
         Unrealizable(m.options[1].length, m.options[2].length, m.options[3].length)
           => last.threw
  /\ NamedEdges(1) =>
       \A o \in {Merged.options[1]} :
         Unrealizable(o.length,
                      Distance(pre.points[o.p1], pre.points[Opposite(o)]),
                      Distance(pre.points[o.p2], pre.points[Opposite(o)]))
           => last.threw

\* fromSSS(10, 2, 3) returned a triangle with a vertex that is NaN
C1_Witness ==
  /\ last.op = "fromSSS" /\ last.args = <<Num(10), Num(2), Num(3)>> /\ ~last.threw
  /\ \E i \in 1..3 : IsNaN(tri.points[i].x)

\* C2: fromSSS(x, y, z) of a realizable triple does not throw and leaves
\* a = x, b = y and c = z; a three-edge setSideLength of a realizable triple
\* on the default triangle does not throw and leaves each named edge with
\* the length asked for.
C2_RealizableBuilt ==
  /\ (last.op = "fromSSS" /\ Realizable(last.args[1], last.args[2], last.args[3]))
       => /\ ~last.threw
          /\ Near(SideOf(tri.points, <<"a">>), last.args[1])
          /\ Near(SideOf(tri.points, <<"b">>), last.args[2])
          /\ Near(SideOf(tri.points, <<"c">>), last.args[3])
  /\ (NamedEdges(3) /\ pre.points = DefaultPoints
        /\ Realizable(last.sides[1].length, last.sides[2].length, last.sides[3].length))
       => /\ ~last.threw
          /\ \A i \in 1..3 :
               Near(SideOf(tri.points, last.sides[i].name), last.sides[i].length)

\* fromSSS(3, 4, 5) returned a triangle whose side c is 5
C2_Witness ==
  /\ last.op = "fromSSS" /\ last.args = <<Num(3), Num(4), Num(5)>> /\ ~last.threw
  /\ Near(SideOf(tri.points, <<"c">>), Num(5))
  /\ tri.points # pre.points

\* C3: a setSideLength that throws leaves the x and y of every vertex as
\* they were before the call.
C3_FailureAtomic ==
  (last.op = "setSideLength" /\ last.threw) => SamePoints(tri.points, pre.points)

\* setSideLength({AB: 300}) threw on a triangle whose other sides cannot
\* reach that length
C3_Witness ==
  /\ last.op = "setSideLength" /\ last.threw
  /\ last.sides = <<Side(AB, 300)>>
  /\ pre.points = DefaultPoints

\* (q - p) x (r - p)
Cross(p, q, r) ==
  Sub(Mul(Sub(q.x, p.x), Sub(r.y, p.y)), Mul(Sub(q.y, p.y), Sub(r.x, p.x)))

\* (q - p) . (r - p)
Dot(p, q, r) ==
  Add(Mul(Sub(q.x, p.x), Sub(r.x, p.x)), Mul(Sub(q.y, p.y), Sub(r.y, p.y)))

\* every coordinate is a finite number and the three points are not on a line
WellFormed(pts) ==
  /\ \A i \in 1..3 : IsFin(pts[i].x) /\ IsFin(pts[i].y)
  /\ Cross(pts[1], pts[2], pts[3]) # Num(0)

\* C4: after any sequence of calls the three vertices have finite
\* coordinates and are not collinear.
C4_VertexSetInvariant == WellFormed(tri.points)

\* movePoint("A", 0, 100) put A of the default triangle on the line BC
C4_Witness ==
  /\ last.op = "movePoint" /\ last.name = <<"A">> /\ last.args = <<Num(0), Num(100)>>
  /\ ~last.threw
  /\ pre.points = DefaultPoints
  /\ Cross(tri.points[1], tri.points[2], tri.points[3]) = Num(0)

\* C5: scale(1) leaves every vertex where it was.
C5_ScaleOneIsIdentity ==
  (last.op = "scale" /\ last.args = <<Num(1)>>) => SamePoints(tri.points, pre.points)

\* scale(1) moved the three vertices of the default triangle to one point
C5_Witness ==
  /\ last.op = "scale" /\ last.args = <<Num(1)>> /\ pre.points = DefaultPoints
  /\ SamePoints(tri.points, [i \in 1..3 |-> tri.points[1]])

\* C6: copy() returns a triangle whose vertices are those of the source moved
\* by (10, 10), with the source's style, and leaves the source as it was.
C6_CopyTranslated ==
  last.op = "copy" =>
    /\ ~last.threw
    /\ ret # NoTriangle
    /\ SamePoints(ret.points, MovePoints(pre.points, Num(10), Num(10)))
    /\ ret.strokeColor = pre.strokeColor
    /\ ret.strokeWidth = pre.strokeWidth
    /\ ret.fillColor = pre.fillColor
    /\ tri = pre

\* copy() threw and returned no triangle
C6_Witness == last.op = "copy" /\ last.threw /\ ret = NoTriangle /\ svgs = preSvgs

\* C7: flip with a line whose a and b are both zero throws and moves no
\* vertex.
C7_FlipRejectsNoLine ==
  (last.op = "flip" /\ last.args[1] = Num(0) /\ last.args[2] = Num(0))
    => last.threw /\ SamePoints(tri.points, pre.points)

\* flip({a: 0, b: 0, c: 1}) did not throw and left every coordinate NaN
C7_Witness ==
  /\ last.op = "flip" /\ last.args = <<Num(0), Num(0), Num(1)>> /\ ~last.threw
  /\ \A i \in 1..3 : IsNaN(tri.points[i].x) /\ IsNaN(tri.points[i].y)

\* the edge of pts that name names, as the set of its ends; {} for no edge
EdgeOf(pts, name) ==
  Bind(GetPointsByName(pts, name), LAMBDA r :
    IF r.threw THEN {} ELSE {r.ps[1], r.ps[2]})

\* tokens i < j of sides name the same edge of pts
SameEdge(pts, sides, i, j) ==
  /\ i < j
  /\ EdgeOf(pts, sides[i].name) # {}
  /\ EdgeOf(pts, sides[i].name) = EdgeOf(pts, sides[j].name)

\* sides without the tokens that name an edge an earlier token names
GivenOnce(pts, sides) ==
  Bind(SelectSeq([j \in 1..Len(sides) |-> j],
                 LAMBDA j : ~\E i \in 1..Len(sides) : SameEdge(pts, sides, i, j)),
       LAMBDA keep : [n \in 1..Len(keep) |-> sides[keep[n]]])

\* C8: a setSideLength in which two tokens name the same edge throws and
\* moves no vertex when their lengths differ, and otherwise does what the
\* call with that edge given once does.
C8_RepeatedEdge ==
  (last.op = "setSideLength"
     /\ \E i, j \in 1..Len(last.sides) : SameEdge(pre.points, last.sides, i, j))
  => IF \E i, j \in 1..Len(last.sides) :
          /\ SameEdge(pre.points, last.sides, i, j)
          /\ last.sides[i].length # last.sides[j].length
     THEN last.threw /\ SamePoints(tri.points, pre.points)
     ELSE [threw |-> last.threw, pts |-> tri.points]
            \in SetSideLength(pre.points, GivenOnce(pre.points, last.sides))

\* setSideLength({AB: 120, c: 120}) moved a vertex of the default triangle
C8_Witness ==
  /\ last.op = "setSideLength" /\ ~last.threw
  /\ last.sides = <<Side(AB, 120), Side(<<"c">>, 120)>>
  /\ pre.points = DefaultPoints
  /\ ~SamePoints(tri.points, pre.points)

\* the vector from p to q has the direction (cos, sin), within Tolerance per
\* unit of length
Along(p, q, cos, sin) ==
  /\ Near(Sub(Mul(Sub(q.x, p.x), sin), Mul(Sub(q.y, p.y), cos)), Num(0))
  /\ Gt(Add(Mul(Sub(q.x, p.x), cos), Mul(Sub(q.y, p.y), sin)), Num(0))

\* C9: fromASA(B, a, C) on valid input returns a triangle with BC = a, A on
\* the ray from B at the angle B to BC and on the ray from C at the angle C
\* to CB (y grows downwards).
C9_ASABuilt ==
  (last.op = "fromASA"
     /\ Gt(last.args[1], Num(0)) /\ Gt(Num(180), last.args[1])
     /\ Gt(last.args[3], Num(0)) /\ Gt(Num(180), last.args[3])
     /\ Gt(Num(180), Add(last.args[1], last.args[3]))
     /\ Gt(last.args[2], Num(0)))
  => /\ ~last.threw
     /\ Near(SideOf(tri.points, <<"a">>), last.args[2])
     /\ Along(tri.points[2], tri.points[1], Cos(last.args[1]), Neg(Sin(last.args[1])))
     /\ Along(tri.points[3], tri.points[1], Neg(Cos(last.args[3])),
              Neg(Sin(last.args[3])))

\* fromASA(30, 10, 60) returned a triangle whose angle at C is 45 degrees
C9_Witness ==
  /\ last.op = "fromASA" /\ last.args = <<Num(30), Num(10), Num(60)>> /\ ~last.threw
  /\ Along(tri.points[3], tri.points[1], Neg(Cos(Num(45))), Neg(Sin(Num(45))))

\* C10: fromHL(hypotenuse, leg) throws and constructs nothing when leg <= 0
\* or hypotenuse <= leg; otherwise it returns a triangle with a right angle
\* at B, BC = leg, AC = hypotenuse and AB * AB = hypotenuse^2 - leg^2.
C10_HLBuilt ==
  last.op = "fromHL" =>
    IF Leq(last.args[2], Num(0)) \/ Leq(last.args[1], last.args[2])
    THEN last.threw /\ svgs = preSvgs /\ tri = pre
    ELSE /\ ~last.threw
         /\ svgs.made = preSvgs.made + 1
         /\ Near(Dot(tri.points[2], tri.points[1], tri.points[3]), Num(0))
         /\ Near(SideOf(tri.points, BC), last.args[2])
         /\ Near(SideOf(tri.points, CA), last.args[1])
         /\ Near(Sq(SideOf(tri.points, AB)), Sub(Sq(last.args[1]), Sq(last.args[2])))

\* fromHL(10, 6) returned a triangle with AB = 8
C10_Witness ==
  /\ last.op = "fromHL" /\ last.args = <<Num(10), Num(6)>> /\ ~last.threw
  /\ Near(SideOf(tri.points, AB), Num(8))

\* a and b are the same length to one part in 500, the precision three
\* decimal digits keep through a slide and a two-circle intersection
Close(a, b) ==
  \/ Near(a, b)
  \/ /\ IsFin(a) /\ IsFin(b)
     /\ AbsI(a.v - b.v) <= MaxI(AbsI(a.v), AbsI(b.v)) \div 500

\* C11: on a triangle with finite, non-collinear vertices, a one-edge
\* setSideLength whose length satisfies the strict triangle inequality with
\* the current lengths of the other two edges returns normally, leaves the
\* named edge with that length and the other two edges with the lengths
\* they had.
C11_SingleEdgeRoundTrip ==
  (NamedEdges(1) /\ WellFormed(pre.points)) =>
    \A o \in {Merged.options[1]} : \A v \in {Opposite(o)} :
      Realizable(o.length,
                 Distance(pre.points[o.p1], pre.points[v]),
                 Distance(pre.points[o.p2], pre.points[v]))
      => /\ ~last.threw
         /\ Close(Distance(tri.points[o.p1], tri.points[o.p2]), o.length)
         /\ Close(Distance(tri.points[o.p1], tri.points[v]),
                 Distance(pre.points[o.p1], pre.points[v]))
         /\ Close(Distance(tri.points[o.p2], tri.points[v]),
                 Distance(pre.points[o.p2], pre.points[v]))

\* setSideLength({a: 120}) on the default triangle made a 120 and moved a
\* vertex, with b and c as long as they were
C11_Witness ==
  /\ last.op = "setSideLength" /\ ~last.threw
  /\ last.sides = <<Side(<<"a">>, 120)>>
  /\ pre.points = DefaultPoints
  /\ ~SamePoints(tri.points, pre.points)
  /\ Near(SideOf(tri.points, <<"a">>), Num(120))
  /\ Near(SideOf(tri.points, <<"b">>), SideOf(pre.points, <<"b">>))
  /\ Near(SideOf(tri.points, <<"c">>), SideOf(pre.points, <<"c">>))

\* the side of the edge o of pts on which the vertex v lies: the sign of
\* (P2 - P1) x (V - P1)
SideSign(pts, o, v) == Sgn(Cross(pts[o.p1], pts[o.p2], pts[v]))

\* the cross product of the edge o of pts and the vertex v is a number
HasSide(pts, o, v) == ~IsNaN(Cross(pts[o.p1], pts[o.p2], pts[v]))

\* C12: after a one-edge setSideLength that returns normally, the third
\* vertex lies on the side of the named edge on which it lay before: the
\* cross product (P2 - P1) x (V - P1) has the sign it had.
C12_OrientationPreserved ==
  (NamedEdges(1) /\ ~last.threw) =>
    \A o \in {Merged.options[1]} : \A v \in {Opposite(o)} :
      /\ HasSide(pre.points, o, v)
      /\ HasSide(tri.points, o, v)
      /\ SideSign(tri.points, o, v) = SideSign(pre.points, o, v)

\* setSideLength({b: 5}) returned normally on the default triangle, whose
\* B lay on one side of AC, and left B on no side of it
C12_Witness ==
  /\ last.op = "setSideLength" /\ ~last.threw
  /\ last.sides = <<Side(<<"b">>, 5)>>
  /\ pre.points = DefaultPoints
  /\ \E o \in {Merged.options[1]} : \E v \in {Opposite(o)} :
       /\ pre.points[v].name = <<"B">>
       /\ SideSign(pre.points, o, v) # 0
       /\ ~HasSide(tri.points, o, v)

\* p comes before q in the order of the one-edge rule: smaller x first, and
\* of equal x the larger y first
Before(p, q) == Gt(q.x, p.x) \/ (p.x = q.x /\ Gt(p.y, q.y))

\* p is lower than q: larger y first, and of equal y the larger x first
Lower(p, q) == Gt(p.y, q.y) \/ (p.y = q.y /\ Gt(p.x, q.x))

\* the length the last setSideLength asked for the edge between i and j
Asked(i, j) ==
  Merged.options[CHOOSE n \in 1..Len(Merged.options) :
                   {Merged.options[n].p1, Merged.options[n].p2} = {i, j}].length

\* new lies on the ray from p through old, to a tenth of a unit
OnRay(p, old, new) ==
  /\ Gt(Dot(p, old, new), Num(0))
  /\ \E c \in {Cross(p, old, new)} : \E d \in {Distance(p, old)} :
       IsFin(c) /\ IsFin(d) /\ AbsI(c.v) <= d.v \div 10

\* in the last call vertex f kept its coordinates, vertex s was slid along
\* the ray from f through its old position to the length asked for the edge
\* between them, and the remaining vertex was put at the lengths asked for
\* its two edges (when the three lengths have such a point)
Roles(f, s) ==
  /\ tri.points[f].x = pre.points[f].x /\ tri.points[f].y = pre.points[f].y
  /\ OnRay(pre.points[f], pre.points[s], tri.points[s])
  /\ Close(Distance(tri.points[f], tri.points[s]), Asked(f, s))
  /\ \A m \in 1..3 \ {f, s} :
       Realizable(Asked(f, s), Asked(f, m), Asked(s, m))
       => /\ Close(Distance(tri.points[f], tri.points[m]), Asked(f, m))
          /\ Close(Distance(tri.points[s], tri.points[m]), Asked(s, m))

\* the last call was a three-edge setSideLength with positive lengths on a
\* triangle with finite, non-collinear vertices, and returned normally
ThreeEdgesSet ==
  /\ NamedEdges(3) /\ ~last.threw /\ WellFormed(pre.points)
  /\ \A n \in 1..3 : Gt(Merged.options[n].length, Num(0))

\* the first vertex in the order of the one-edge rule
FirstByX(pts) ==
  CHOOSE f \in 1..3 : \A j \in 1..3 \ {f} : Before(pts[f], pts[j])

====
